---- MODULE Spec2Model ----
(***************************************************************************)
(* Model of src/script.js: a freehand drawing canvas with a linear undo    *)
(* history of serialized snapshots.                                        *)
(*                                                                         *)
(* The canvas is modelled as one row of pixels (the row under the pointer);*)
(* every pixel is either an opaque colour or Transparent.  Every event     *)
(* listener of the script is one action.  The only asynchronous step is    *)
(* the load of the Image created by the undo handler: the images that are  *)
(* still loading are kept in `pending`, and ImgOnload fires one of them.   *)
(***************************************************************************)
EXTENDS Integers, Sequences, FiniteSets, TLC

VARIABLES
    canvas,       \* [width, px]: canvas.width and the pixel row
    ctx,          \* [fillStyle, gco]: the 2D context's drawing state
    isDrawing,    \* script.js:19
    currentColor, \* script.js:20
    brushSize,    \* script.js:21
    brushType,    \* script.js:22
    isEraser,     \* script.js:23
    history,      \* script.js:24, a sequence of data URLs (1-indexed here)
    historyStep,  \* script.js:25, 0-indexed as in the source
    pending,      \* Images whose src is set and whose onload has not fired
    last,         \* the event handled last and what it called
    pushes,       \* saveState calls made while no undo has moved the cursor
                  \* (counted up to HistoryCap + 1)
    undone,       \* an undo has moved the cursor
    spray,        \* the drawSpray call followed sample by sample in SpecSpray
    steps         \* position in the run, counted as each specification says

vars == <<canvas, ctx, isDrawing, currentColor, brushSize, brushType,
          isEraser, history, historyStep, pending, last, pushes, undone, spray,
          steps>>

----------------------------------------------------------------------------
(* Bounds of the exploration *)

\* events handled in one run of Spec
MaxSteps == 4
\* Images loading at the same time
MaxPending == 2
\* events other than clears in one run of SpecCap
MaxOthers == 1
\* SpecUndos: operations made before the undos
MaxUndoPushes == 3
\* SpecSpray: the largest brush size, and the number of equally spaced values
\* Math.random() takes in [0, 1)
MaxSpraySize == 2
RandomSteps == 4

----------------------------------------------------------------------------
(* Program constants *)

HistoryCap == 50
MaxCanvasWidth == 1200
ContainerPadding == 40
DefaultBrushSize == 5

Background == "#000000"
DefaultColor == "#ffffff"
EraseFill == "rgba(0,0,0,1)"
Transparent == "transparent"
\* a JavaScript number that is an integer or NaN
Num(n) == [nan |-> FALSE, n |-> n]
NaN == [nan |-> TRUE, n |-> 0]

\* values the colour picker delivers
Colors == {DefaultColor, "#ff0000"}
\* hsl colours the rainbow brush computes from the clock
Hues == {"hsl(0,100%,50%)", "hsl(120,100%,50%)"}
BrushTypes == {"round", "square", "spray", "rainbow"}
\* container.clientWidth at the time of a resize
ClientWidths == {41, 42}

Min(a, b) == IF a < b THEN a ELSE b
Abs(a) == IF a < 0 THEN -a ELSE a

----------------------------------------------------------------------------
(* The canvas and its 2D context *)

SourceOver == "source-over"
DestinationOut == "destination-out"

Pixels(w) == 1..w

\* One pixel after painting the opaque or transparent source pixel src on
\* dst: source-over keeps dst under a transparent source and shows an opaque
\* one; destination-out removes dst wherever the source is opaque.
Composite(gco, src, dst) ==
    IF src = Transparent THEN dst
    ELSE IF gco = DestinationOut THEN Transparent
    ELSE src

\* canvas.toDataURL(): the PNG of the whole bitmap, as a data URL
ToDataURL(cv) == [mime |-> "image/png", w |-> cv.width, data |-> cv.px]
NoUrl == [mime |-> "none", w |-> 0, data |-> <<>>]

\* the bitmap an Image holds once a data URL has been decoded
DecodeImage(url) == [width |-> url.w, px |-> url.data]

\* ctx.fillRect(0, 0, canvas.width, canvas.height)
FillRectAll(cv, cx) ==
    [cv EXCEPT !.px = [p \in Pixels(cv.width) |->
                          Composite(cx.gco, cx.fillStyle, cv.px[p])]]

\* ctx.clearRect(0, 0, canvas.width, canvas.height)
ClearRectAll(cv) ==
    [cv EXCEPT !.px = [p \in Pixels(cv.width) |-> Transparent]]

\* ctx.drawImage(img, 0, 0): unscaled, so only the pixels the image covers
DrawImage(cv, cx, img) ==
    [cv EXCEPT !.px = [p \in Pixels(cv.width) |->
                          IF p <= img.width
                          THEN Composite(cx.gco, img.px[p], cv.px[p])
                          ELSE cv.px[p]]]

\* Setting canvas.width or canvas.height clears the bitmap and resets the
\* context to its defaults.
ResetContext == [fillStyle |-> Background, gco |-> SourceOver]

ResizedWidth(clientWidth) == Min(MaxCanvasWidth, clientWidth - ContainerPadding)

\* resizeCanvas without its fillRect: the bitmap stays as the resize left it
ResizeCanvasNoFill(clientWidth) ==
    LET w == ResizedWidth(clientWidth)
    IN  [width |-> w, px |-> [p \in Pixels(w) |-> Transparent]]

ResizeCanvasCanvas(clientWidth) ==
    LET w == ResizedWidth(clientWidth)
        blank == [width |-> w, px |-> [p \in Pixels(w) |-> Transparent]]
    IN  FillRectAll(blank, [ResetContext EXCEPT !.fillStyle = Background])

ResizeCanvasCtx == [ResetContext EXCEPT !.fillStyle = Background]

----------------------------------------------------------------------------
(* saveState *)

\* history.length = n for n <= Len(h)
Truncate(h, n) == SubSeq(h, 1, n)

\* saveState with the eviction's `historyStep--` left out
SaveStateKeepsStep(h, step, url) ==
    LET s1 == step + 1
        h1 == IF s1 < Len(h) THEN Truncate(h, s1) ELSE h
        h2 == Append(h1, url)
    IN  IF Len(h2) > HistoryCap
        THEN [history |-> Tail(h2), historyStep |-> s1]
        ELSE [history |-> h2, historyStep |-> s1]

\* saveState with the leading `historyStep++` left out
SaveStateNoAdvance(h, step, url) ==
    LET h1 == IF step >= 0 /\ step < Len(h) THEN Truncate(h, step) ELSE h
        h2 == Append(h1, url)
    IN  IF Len(h2) > HistoryCap
        THEN [history |-> Tail(h2), historyStep |-> step - 1]
        ELSE [history |-> h2, historyStep |-> step]

\* saveState with the truncation `history.length = historyStep` left out
SaveStateNoTruncate(h, step, url) ==
    LET s1 == step + 1
        h2 == Append(h, url)
    IN  IF Len(h2) > HistoryCap
        THEN [history |-> Tail(h2), historyStep |-> s1 - 1]
        ELSE [history |-> h2, historyStep |-> s1]

\* saveState(): the new [history, historyStep] for the snapshot url.
\* The source indexes history from 0, so index i there is h[i + 1] here.
SaveState(h, step, url) ==
    LET s1 == step + 1
        h1 == IF s1 < Len(h) THEN Truncate(h, s1) ELSE h
        h2 == Append(h1, url)
    IN  IF Len(h2) > HistoryCap
        THEN [history |-> Tail(h2), historyStep |-> s1 - 1]
        ELSE [history |-> h2, historyStep |-> s1]

\* history[i] with the source's 0-based index
Entry(h, i) == h[i + 1]

----------------------------------------------------------------------------
(* The brush-size control *)

Digits == {"0", "1", "2", "3", "4", "5", "6", "7", "8", "9"}

DigitVal(c) ==
    CASE c = "0" -> 0 [] c = "1" -> 1 [] c = "2" -> 2 [] c = "3" -> 3
      [] c = "4" -> 4 [] c = "5" -> 5 [] c = "6" -> 6 [] c = "7" -> 7
      [] c = "8" -> 8 [] c = "9" -> 9

RECURSIVE ParseDigits(_, _)
ParseDigits(s, acc) ==
    IF s = <<>> \/ Head(s) \notin Digits THEN acc
    ELSE ParseDigits(Tail(s), 10 * acc + DigitVal(Head(s)))

\* parseInt(string): an optional sign, then the longest prefix of decimal
\* digits; NaN when there is no digit.  A string is a sequence of characters.
ParseInt(s) ==
    LET signed == s # <<>> /\ Head(s) \in {"-", "+"}
        body == IF signed THEN Tail(s) ELSE s
    IN  IF body = <<>> \/ Head(body) \notin Digits THEN NaN
        ELSE IF signed /\ Head(s) = "-" THEN Num(0 - ParseDigits(body, 0))
        ELSE Num(ParseDigits(body, 0))

\* e.target.value of the brush-size control
SliderValues == { <<"1">>, <<"0">>, <<"-", "1">>, <<"x">> }

----------------------------------------------------------------------------
(* Drawing functions *)

\* pixels of the row whose centre is within size/2 of x
Disc(x, size, w) == {p \in Pixels(w) : 2 * Abs(p - x) <= size}

\* drawRound: arc() with a NaN radius adds nothing to the path, a negative
\* radius throws before fill(), radius 0 encloses no pixel
RoundPixels(x, size, w) ==
    IF size.nan THEN {}
    ELSE IF size.n <= 0 THEN {}
    ELSE Disc(x, size.n, w)

\* drawSquare: fillRect paints nothing for a NaN or zero side and the same
\* square for a negative side
SquarePixels(x, size, w) ==
    IF size.nan THEN {}
    ELSE IF size.n = 0 THEN {}
    ELSE Disc(x, Abs(size.n), w)

\* drawSpray: density = 2 * brushSize samples, each painted when it falls in
\* the disc; the sets of pixels one call can paint
\* the number of iterations of `for (i = 0; i < density; i++)`
SprayDensity(size) ==
    IF size.nan THEN 0 ELSE IF size.n < 0 THEN 0 ELSE 2 * size.n

SprayChoices(x, size, w) ==
    IF SprayDensity(size) = 0 THEN {{}}
    ELSE {hits \in SUBSET Disc(x, size.n, w) :
             Cardinality(hits) <= SprayDensity(size)}

\* draw() with drawRainbow switching back to the paint composite mode
DrawCtxRainbowPaints(hue) ==
    LET base == IF isEraser
                THEN [fillStyle |-> EraseFill, gco |-> DestinationOut]
                ELSE [fillStyle |-> currentColor, gco |-> SourceOver]
    IN  IF brushType = "rainbow"
        THEN [fillStyle |-> hue, gco |-> SourceOver]
        ELSE base

\* the context after draw() has set it up, hue being drawRainbow's colour
DrawCtx(hue) ==
    LET base == IF isEraser
                THEN [fillStyle |-> EraseFill, gco |-> DestinationOut]
                ELSE [fillStyle |-> currentColor, gco |-> SourceOver]
    IN  IF brushType = "rainbow" THEN [base EXCEPT !.fillStyle = hue] ELSE base

\* the pixels draw(x, y) paints; hits is the spray brush's random outcome
DrawPixels(x, hits) ==
    CASE brushType = "round"   -> RoundPixels(x, brushSize, canvas.width)
      [] brushType = "square"  -> SquarePixels(x, brushSize, canvas.width)
      [] brushType = "spray"   -> hits
      [] brushType = "rainbow" -> RoundPixels(x, brushSize, canvas.width)
      [] OTHER -> {}

\* the canvas after draw(x, y)
Draw(cv, x, hue, hits) ==
    LET cx == DrawCtx(hue)
        painted == DrawPixels(x, hits)
    IN  [cv EXCEPT !.px = [p \in Pixels(cv.width) |->
                              IF p \in painted
                              THEN Composite(cx.gco, cx.fillStyle, cv.px[p])
                              ELSE cv.px[p]]]

\* the random and clock-dependent inputs of one draw() call
HueChoices == IF brushType = "rainbow" THEN Hues ELSE {"hsl(0,100%,50%)"}
HitChoices(x) ==
    IF brushType = "spray" THEN SprayChoices(x, brushSize, canvas.width) ELSE {{}}

----------------------------------------------------------------------------
(* drawSpray, sample by sample.  Math.random() returns k / RandomSteps for  *)
(* some k in Randoms; an offset is kept as the integer 2 * RandomSteps     *)
(* times its value in pixels.                                              *)

Randoms == 0..(RandomSteps - 1)

\* (Math.random() - 0.5) * brushSize for Math.random() = k / RandomSteps
SprayOffset(k, size) == (2 * k - RandomSteps) * size.n

\* drawSpray painting every sample
SprayAcceptsAll(ox, oy, size) == TRUE

\* Math.sqrt(offsetX * offsetX + offsetY * offsetY) <= brushSize / 2
SprayAccepts(ox, oy, size) ==
    /\ size.n >= 0
    /\ ox * ox + oy * oy <= (RandomSteps * size.n) * (RandomSteps * size.n)

\* no sample taken yet
NoSpray == [i |-> 0, ox |-> 0, oy |-> 0, hit |-> FALSE, dots |-> {}]

\* one iteration of drawSpray's loop; dots are the offsets of the 1x1
\* rectangles painted so far
SpraySample(kx, ky) ==
    LET ox == SprayOffset(kx, brushSize)
        oy == SprayOffset(ky, brushSize)
        hit == SprayAccepts(ox, oy, brushSize)
    IN  /\ brushType = "spray"
        /\ spray.i < SprayDensity(brushSize)
        /\ spray' = [i |-> spray.i + 1, ox |-> ox, oy |-> oy, hit |-> hit,
                     dots |-> IF hit THEN spray.dots \cup {<<ox, oy>>}
                              ELSE spray.dots]
        /\ UNCHANGED <<canvas, ctx, isDrawing, currentColor, brushSize,
                       brushType, isEraser, history, historyStep, pending,
                       last, pushes, undone, steps>>

----------------------------------------------------------------------------
(* Bookkeeping shared by the handlers *)

\* what the handler of one event did: the saveState and draw calls it made
\* and the href of the download it started
Ev(name, key, ctrl, saved, stamps, href) ==
    [ev |-> name, key |-> key, ctrl |-> ctrl, saved |-> saved,
     stamps |-> stamps, href |-> href]

Log(e) ==
    /\ last' = e
    /\ UNCHANGED spray
    /\ pushes' = IF e.saved = 1 /\ ~undone THEN Min(pushes + 1, HistoryCap + 1)
                 ELSE pushes

Note(name, saved, stamps) == Log(Ev(name, "", FALSE, saved, stamps, NoUrl))

\* saveState() on the current canvas
DoSaveState ==
    LET r == SaveState(history, historyStep, ToDataURL(canvas))
    IN  /\ history' = r.history
        /\ historyStep' = r.historyStep

----------------------------------------------------------------------------
(* Window and control listeners *)

\* window 'resize' -> resizeCanvas
Resize(clientWidth) ==
    /\ canvas' = ResizeCanvasCanvas(clientWidth)
    /\ ctx' = ResizeCanvasCtx
    /\ UNCHANGED <<isDrawing, currentColor, brushSize, brushType, isEraser,
                   history, historyStep, pending, undone>>
    /\ Note("resize", 0, 0)

\* colorPicker 'input'
ColorInput(c) ==
    /\ currentColor' = c
    /\ isEraser' = FALSE
    /\ UNCHANGED <<canvas, ctx, isDrawing, brushSize, brushType,
                   history, historyStep, pending, undone>>
    /\ Note("color", 0, 0)

\* brushSizeSlider 'input'
BrushSizeInput(v) ==
    /\ brushSize' = ParseInt(v)
    /\ UNCHANGED <<canvas, ctx, isDrawing, currentColor, brushType, isEraser,
                   history, historyStep, pending, undone>>
    /\ Note("size", 0, 0)

\* brushTypeSelect 'change'
BrushTypeChange(t) ==
    /\ brushType' = t
    /\ UNCHANGED <<canvas, ctx, isDrawing, currentColor, brushSize, isEraser,
                   history, historyStep, pending, undone>>
    /\ Note("type", 0, 0)

\* the clear handler without its confirm() test
ClearEffectUngated(confirmed) ==
    /\ DoSaveState
    /\ ctx' = [ctx EXCEPT !.fillStyle = Background]
    /\ canvas' = FillRectAll(canvas, ctx')
    /\ UNCHANGED <<isDrawing, currentColor, brushSize, brushType,
                   isEraser, pending, undone>>

\* clearBtn 'click'; confirmed is the answer to confirm()
ClearEffect(confirmed) ==
    IF confirmed
    THEN /\ DoSaveState
         /\ ctx' = [ctx EXCEPT !.fillStyle = Background]
         /\ canvas' = FillRectAll(canvas, ctx')
         /\ UNCHANGED <<isDrawing, currentColor, brushSize, brushType,
                        isEraser, pending, undone>>
    ELSE UNCHANGED <<canvas, ctx, isDrawing, currentColor, brushSize,
                     brushType, isEraser, history, historyStep, pending,
                     undone>>

ClearClick(confirmed) ==
    /\ ClearEffect(confirmed)
    /\ Note("clear", IF confirmed THEN 1 ELSE 0, 0)

\* eraserBtn 'click'
EraserEffect ==
    /\ isEraser' = ~isEraser
    /\ UNCHANGED <<canvas, ctx, isDrawing, currentColor, brushSize, brushType,
                   history, historyStep, pending, undone>>

EraserClick == EraserEffect /\ Note("eraser", 0, 0)

\* the fill handler calling saveState() after fillRect
FillClickPaintFirst ==
    /\ ctx' = [ctx EXCEPT !.fillStyle = currentColor]
    /\ canvas' = FillRectAll(canvas, ctx')
    /\ LET r == SaveState(history, historyStep, ToDataURL(canvas'))
       IN  /\ history' = r.history
           /\ historyStep' = r.historyStep
    /\ UNCHANGED <<isDrawing, currentColor, brushSize, brushType, isEraser,
                   pending, undone>>
    /\ Note("fill", 1, 0)

\* fillBtn 'click'
FillClick ==
    /\ DoSaveState
    /\ ctx' = [ctx EXCEPT !.fillStyle = currentColor]
    /\ canvas' = FillRectAll(canvas, ctx')
    /\ UNCHANGED <<isDrawing, currentColor, brushSize, brushType, isEraser,
                   pending, undone>>
    /\ Note("fill", 1, 0)

\* saveBtn 'click': nothing of the program's state changes
SaveEffect ==
    UNCHANGED <<canvas, ctx, isDrawing, currentColor, brushSize, brushType,
                isEraser, history, historyStep, pending, undone>>

SaveClick ==
    /\ SaveEffect
    /\ Log(Ev("save", "", FALSE, 0, 0, ToDataURL(canvas)))

\* the undo handler with `historyStep >= 0` as its test
UndoEffectAtZero ==
    /\ historyStep' = historyStep - 1
    /\ pending' = IF historyStep > 0
                  THEN Append(pending, Entry(history, historyStep - 1))
                  ELSE pending
    /\ undone' = TRUE
    /\ UNCHANGED <<canvas, ctx, isDrawing, currentColor, brushSize,
                   brushType, isEraser, history>>

\* the undo handler loading history[historyStep] before the decrement
UndoEffectStaleEntry ==
    IF historyStep > 0
    THEN /\ historyStep' = historyStep - 1
         /\ pending' = Append(pending, Entry(history, historyStep))
         /\ undone' = TRUE
         /\ UNCHANGED <<canvas, ctx, isDrawing, currentColor, brushSize,
                        brushType, isEraser, history>>
    ELSE UNCHANGED <<canvas, ctx, isDrawing, currentColor, brushSize,
                     brushType, isEraser, history, historyStep, pending,
                     undone>>

\* undoBtn 'click': the Image starts loading history[historyStep]
UndoEffect ==
    IF historyStep > 0
    THEN /\ historyStep' = historyStep - 1
         /\ pending' = Append(pending, Entry(history, historyStep - 1))
         /\ undone' = TRUE
         /\ UNCHANGED <<canvas, ctx, isDrawing, currentColor, brushSize,
                        brushType, isEraser, history>>
    ELSE UNCHANGED <<canvas, ctx, isDrawing, currentColor, brushSize,
                     brushType, isEraser, history, historyStep, pending,
                     undone>>

\* the model keeps at most MaxPending Images loading
UndoAllowed == historyStep > 0 => Len(pending) < MaxPending

UndoClick == UndoAllowed /\ UndoEffect /\ Note("undo", 0, 0)

\* img.onload of the i-th Image still loading
RemoveAt(q, i) == SubSeq(q, 1, i - 1) \o SubSeq(q, i + 1, Len(q))

ImgOnload(i) ==
    /\ i \in 1..Len(pending)
    /\ canvas' = DrawImage(ClearRectAll(canvas), ctx, DecodeImage(pending[i]))
    /\ pending' = RemoveAt(pending, i)
    /\ UNCHANGED <<ctx, isDrawing, currentColor, brushSize, brushType,
                   isEraser, history, historyStep, undone>>
    /\ Note("onload", 0, 0)

----------------------------------------------------------------------------
(* Pointer listeners.  x is the pointer's pixel (getMousePos, getTouchPos);  *)
(* hue and hits are the clock and Math.random outcomes of the draw() call.  *)

\* 'mousedown' and 'touchstart'
PointerDown(name, x, hue, hits) ==
    /\ isDrawing' = TRUE
    /\ DoSaveState
    /\ ctx' = DrawCtx(hue)
    /\ canvas' = Draw(canvas, x, hue, hits)
    /\ UNCHANGED <<currentColor, brushSize, brushType, isEraser, pending,
                   undone>>
    /\ Note(name, 1, 1)

\* the move handler without its `if (isDrawing)` test
PointerMoveAlways(name, x, hue, hits) ==
    /\ ctx' = DrawCtx(hue)
    /\ canvas' = Draw(canvas, x, hue, hits)
    /\ Note(name, 0, 1)
    /\ UNCHANGED <<isDrawing, currentColor, brushSize, brushType, isEraser,
                   history, historyStep, pending, undone>>

\* 'mousemove' and 'touchmove'
PointerMove(name, x, hue, hits) ==
    /\ IF isDrawing
       THEN /\ ctx' = DrawCtx(hue)
            /\ canvas' = Draw(canvas, x, hue, hits)
            /\ Note(name, 0, 1)
       ELSE /\ UNCHANGED <<canvas, ctx>>
            /\ Note(name, 0, 0)
    /\ UNCHANGED <<isDrawing, currentColor, brushSize, brushType, isEraser,
                   history, historyStep, pending, undone>>

\* 'mouseup', 'mouseout', 'touchend' and 'touchcancel'
PointerEnd(name) ==
    /\ isDrawing' = FALSE
    /\ UNCHANGED <<canvas, ctx, currentColor, brushSize, brushType, isEraser,
                   history, historyStep, pending, undone>>
    /\ Note(name, 0, 0)

MouseDown(x, hue, hits) == PointerDown("mousedown", x, hue, hits)
MouseMove(x, hue, hits) == PointerMove("mousemove", x, hue, hits)
MouseUp == PointerEnd("mouseup")
MouseOut == PointerEnd("mouseout")
TouchStart(x, hue, hits) == PointerDown("touchstart", x, hue, hits)
TouchMove(x, hue, hits) == PointerMove("touchmove", x, hue, hits)
TouchEnd == PointerEnd("touchend")
TouchCancel == PointerEnd("touchcancel")

----------------------------------------------------------------------------
(* Keyboard shortcuts *)

Keys == {"z", "s", "e", "c", "x"}

\* document 'keydown'; ctrl is e.ctrlKey || e.metaKey.  The switch under
\* `if (ctrl)` and the two plain tests run one after the other; a key is one
\* of the values, so at most one of the clicks happens.
KeyDown(key, ctrl, confirmed) ==
    /\ CASE ctrl /\ key = "z" -> UndoAllowed /\ UndoEffect
         [] ctrl /\ key = "s" -> SaveEffect
         [] key = "e" -> EraserEffect
         [] key = "c" -> ClearEffect(confirmed)
         [] OTHER -> SaveEffect
    /\ Log(Ev("keydown", key, ctrl,
              IF key = "c" /\ confirmed THEN 1 ELSE 0, 0,
              IF ctrl /\ key = "s" THEN ToDataURL(canvas) ELSE NoUrl))

----------------------------------------------------------------------------
(* The program *)

\* the state once the script has run: resizeCanvas(), the declarations of
\* lines 19-25 and the initial saveState()
Init ==
    \E clientWidth \in ClientWidths :
        LET cv == ResizeCanvasCanvas(clientWidth)
            r == SaveState(<<>>, -1, ToDataURL(cv))
        IN  /\ canvas = cv
            /\ ctx = ResizeCanvasCtx
            /\ isDrawing = FALSE
            /\ currentColor = DefaultColor
            /\ brushSize = Num(DefaultBrushSize)
            /\ brushType = "round"
            /\ isEraser = FALSE
            /\ history = r.history
            /\ historyStep = r.historyStep
            /\ pending = <<>>
            /\ last = Ev("init", "", FALSE, 1, 0, NoUrl)
            /\ pushes = 1
            /\ undone = FALSE
            /\ spray = NoSpray
            /\ steps = 0

\* one more event of a run of at most MaxSteps events
Tick == steps < MaxSteps /\ steps' = steps + 1

Positions == Pixels(canvas.width)

Next ==
    \/ \E w \in ClientWidths : Resize(w) /\ Tick
    \/ \E c \in Colors : ColorInput(c) /\ Tick
    \/ \E v \in SliderValues : BrushSizeInput(v) /\ Tick
    \/ \E t \in BrushTypes : BrushTypeChange(t) /\ Tick
    \/ \E b \in BOOLEAN : ClearClick(b) /\ Tick
    \/ EraserClick /\ Tick
    \/ FillClick /\ Tick
    \/ SaveClick /\ Tick
    \/ UndoClick /\ Tick
    \/ \E i \in 1..Len(pending) : ImgOnload(i) /\ Tick
    \/ \E x \in Positions, hue \in HueChoices :
          \E hits \in HitChoices(x) : MouseDown(x, hue, hits) /\ Tick
    \/ \E x \in Positions, hue \in HueChoices :
          \E hits \in HitChoices(x) : MouseMove(x, hue, hits) /\ Tick
    \/ MouseUp /\ Tick
    \/ MouseOut /\ Tick
    \/ \E x \in Positions, hue \in HueChoices :
          \E hits \in HitChoices(x) : TouchStart(x, hue, hits) /\ Tick
    \/ \E x \in Positions, hue \in HueChoices :
          \E hits \in HitChoices(x) : TouchMove(x, hue, hits) /\ Tick
    \/ TouchEnd /\ Tick
    \/ TouchCancel /\ Tick
    \/ \E key \in Keys, ctrl \in BOOLEAN :
          \E b \in (IF key = "c" THEN BOOLEAN ELSE {FALSE}) :
              KeyDown(key, ctrl, b) /\ Tick

Spec == Init /\ [][Next]_vars

----------------------------------------------------------------------------------------------------------------------------------------
(* Long runs: the history is filled up to its cap and beyond.  A run holds *)
(* any number of clears and at most MaxOthers other events, chosen among   *)
(* those that push or undo; a restore issued in such a run is still        *)
(* loading when the run ends.                                              *)

Untimed == UNCHANGED steps
Other == steps < MaxOthers /\ steps' = steps + 1

NextCap ==
    \/ \E b \in BOOLEAN : ClearClick(b) /\ Untimed
    \/ FillClick /\ Other
    \/ \E x \in Positions, hue \in HueChoices :
          \E hits \in HitChoices(x) : MouseDown(x, hue, hits) /\ Other
    \/ UndoClick /\ Other

SpecCap == Init /\ [][NextCap]_vars

----------------------------------------------------------------------------
(* The stroke / undo / stroke scenario: with any brush configuration, the  *)
(* user draws stroke A (pointer-down and one move sample), undoes once and *)
(* starts stroke B.  steps is the position in this script; releasing the   *)
(* button and the completion of the restore are not scripted.              *)

At(n) == steps = n /\ UNCHANGED steps
Step(n) == steps = n /\ steps' = n + 1

NextStroke ==
    \/ \E c \in Colors : ColorInput(c) /\ At(0)
    \/ \E v \in SliderValues : BrushSizeInput(v) /\ At(0)
    \/ \E t \in BrushTypes : BrushTypeChange(t) /\ At(0)
    \/ EraserClick /\ At(0)
    \/ \E x \in Positions, hue \in HueChoices :
          \E hits \in HitChoices(x) : MouseDown(x, hue, hits) /\ Step(0)
    \/ \E x \in Positions, hue \in HueChoices :
          \E hits \in HitChoices(x) : MouseMove(x, hue, hits) /\ Step(1)
    \/ isDrawing /\ MouseUp /\ At(2)
    \/ UndoClick /\ Step(2)
    \/ \E i \in 1..Len(pending) : ImgOnload(i) /\ UNCHANGED steps
    \/ \E x \in Positions, hue \in HueChoices :
          \E hits \in HitChoices(x) : TouchStart(x, hue, hits) /\ Step(3)

SpecStroke == Init /\ [][NextStroke]_vars

----------------------------------------------------------------------------
(* Properties of the history *)

\* the handler of the step called saveState()
Pushed == last'.saved = 1

\* C1: the history holds between 1 and HistoryCap entries and historyStep
\* is a valid index into it; a push onto a full history whose cursor is at
\* the tail evicts the oldest entry and leaves the cursor on the entry just
\* pushed.
C1_CursorInBounds ==
    /\ [](/\ 1 <= Len(history)
          /\ Len(history) <= HistoryCap
          /\ 0 <= historyStep
          /\ historyStep <= Len(history) - 1)
    /\ [][(Pushed /\ Len(history) = HistoryCap
                  /\ historyStep = HistoryCap - 1)
            => /\ history' = Append(Tail(history), ToDataURL(canvas))
               /\ historyStep' = HistoryCap - 1
               /\ Entry(history', historyStep') = ToDataURL(canvas)]_vars

\* a push has evicted an entry, and the history still holds different ones
C1_Evicted ==
    /\ pushes > HistoryCap
    /\ last.saved = 1
    /\ Len(history) = HistoryCap
    /\ historyStep = HistoryCap - 1
    /\ \E i \in 1..Len(history) : history[i] # history[1]

\* C2: after N pushes, the initial one included, with no undo in between
\* and N < HistoryCap, the history has N entries and the cursor is N - 1.
C2_PushesCount ==
    (~undone /\ pushes < HistoryCap)
        => (Len(history) = pushes /\ historyStep = pushes - 1)

\* HistoryCap - 1 pushes and no undo
C2_AlmostFull == ~undone /\ pushes = HistoryCap - 1 /\ last.saved = 1

\* C3: a push with the cursor c below the last index keeps entries 0..c,
\* appends the new snapshot and leaves the cursor on it, at the last index.
C3_TruncateOnPush ==
    [][(Pushed /\ historyStep < Len(history) - 1)
         => /\ history' = Append(SubSeq(history, 1, historyStep + 1),
                                 ToDataURL(canvas))
            /\ historyStep' = historyStep + 1
            /\ historyStep' = Len(history') - 1]_vars

\* a push, an undo and a push: the second push has discarded the first one's
\* entry
C3_AfterTruncation ==
    /\ steps = 3
    /\ undone
    /\ last.saved = 1
    /\ Len(history) = 2
    /\ historyStep = 1

\* the snapshot of a canvas of the current width that shows the background
InitialSnapshot ==
    [mime |-> "image/png", w |-> canvas.width,
     data |-> [p \in Pixels(canvas.width) |-> Background]]

\* C4 as stated: after stroke A the history is [initial, A-start], and after
\* stroke B's push it is [initial, A-start, B-start].
C4_KeepsRedoBranch ==
    /\ [](steps = 2 => history = <<InitialSnapshot, InitialSnapshot>>)
    /\ [][(steps = 3 /\ steps' = 4)
            => history' = <<InitialSnapshot, InitialSnapshot,
                            ToDataURL(canvas)>>]_vars

\* C4, amended: after stroke A the history is [initial, A-start] with the
\* cursor on A-start; stroke B's push, made after the undo, discards A-start:
\* the history is then [initial, B-start] with the cursor on B-start.
C4_DropsRedoBranch ==
    /\ [](steps = 2 => /\ history = <<InitialSnapshot, InitialSnapshot>>
                       /\ historyStep = 1)
    /\ [][(steps = 3 /\ steps' = 4)
            => /\ history' = <<InitialSnapshot, ToDataURL(canvas)>>
               /\ historyStep' = 1]_vars

\* stroke B has started
C4_StrokeBStarted ==
    /\ steps = 4
    /\ last.ev = "touchstart"
    /\ undone
    /\ Len(history) = 2

----------------------------------------------------------------------------
(* Properties of undo and restore *)

\* the step is an undo, from the button or from Ctrl/Cmd+Z
UndoEvent ==
    \/ last'.ev = "undo"
    \/ last'.ev = "keydown" /\ last'.key = "z" /\ last'.ctrl

\* C5: an undo with the cursor at 0 changes neither the cursor, nor the
\* history, nor the canvas, and starts no restore.
C5_UndoAtZero ==
    [][(UndoEvent /\ historyStep = 0)
         => UNCHANGED <<historyStep, history, canvas, pending>>]_vars

\* the undo button was clicked with the cursor at 0
C5_UndoneNothing ==
    /\ last.ev = "undo"
    /\ ~undone
    /\ historyStep = 0
    /\ pending = <<>>

\* C6: an undo with the cursor c > 0 sets the cursor to c - 1, keeps the
\* history and the canvas as they are and starts the restore of exactly
\* history[c - 1]; a restore leaves the loading ones only when its onload
\* fires.
C6_UndoSchedulesRestore ==
    [][/\ (UndoEvent /\ historyStep > 0)
            => /\ historyStep' = historyStep - 1
               /\ history' = history
               /\ canvas' = canvas
               /\ pending' = Append(pending, Entry(history, historyStep - 1))
       /\ (Len(pending') < Len(pending)) <=> (last'.ev = "onload")]_vars

\* an undo has just moved the cursor and its restore is loading
C6_RestoreLoading ==
    /\ steps = 2
    /\ last.ev = "undo"
    /\ undone
    /\ pending = <<Entry(history, historyStep)>>

\* C7: whatever state the context was left in, the canvas after a restore's
\* onload equals the snapshot restored.  Stated here for the snapshots taken
\* at the canvas's current width.
C7_RestoreRoundTrip ==
    [][last'.ev = "onload"
         => \E i \in 1..Len(pending) :
               /\ pending' = RemoveAt(pending, i)
               /\ pending[i].w = canvas.width
                     => ToDataURL(canvas') = pending[i]]_vars

\* C8: while a restore is loading, no handler calls saveState() or draw(), and
\* the canvas changes only by the restore's own onload.
C8_QuietWhilePending ==
    [][pending # <<>>
         => /\ last'.saved = 0
            /\ last'.stamps = 0
            /\ canvas' # canvas => last'.ev = "onload"]_vars

----------------------------------------------------------------------------
(* Properties of the pointer listeners *)

DownEvents == {"mousedown", "touchstart"}
MoveEvents == {"mousemove", "touchmove"}
EndEvents == {"mouseup", "mouseout", "touchend", "touchcancel"}

\* the step made exactly one draw() call at some pointer position
OneStamp ==
    /\ last'.stamps = 1
    /\ \E x \in Positions, hue \in HueChoices :
          \E hits \in HitChoices(x) :
              /\ canvas' = Draw(canvas, x, hue, hits)
              /\ ctx' = DrawCtx(hue)

\* C9: pointer-down sets isDrawing, pointer-up/leave/cancel clears it and no
\* other event changes it; a move sample makes one stamp when isDrawing and
\* leaves the canvas alone otherwise; a stamp made while not drawing is a
\* pointer-down's.
C9_TwoStateController ==
    [][/\ last'.ev \in DownEvents => (isDrawing' /\ OneStamp)
       /\ last'.ev \in EndEvents => (~isDrawing' /\ last'.stamps = 0)
       /\ last'.ev \in MoveEvents
             => /\ isDrawing' = isDrawing
                /\ IF isDrawing THEN OneStamp
                   ELSE last'.stamps = 0 /\ UNCHANGED <<canvas, ctx>>
       /\ last'.ev \notin (DownEvents \cup MoveEvents \cup EndEvents)
             => (isDrawing' = isDrawing /\ last'.stamps = 0)
       /\ (~isDrawing /\ last'.stamps = 1) => last'.ev \in DownEvents]_vars

\* a move sample after the gesture has ended: nothing was stamped
C9_MoveWhileIdle ==
    /\ last.ev \in MoveEvents
    /\ last.stamps = 0
    /\ ~isDrawing
    /\ Len(history) = 2
    /\ \E p \in Pixels(canvas.width) : canvas.px[p] = DefaultColor

\* the step pushed exactly one entry, the snapshot of the canvas as it was
\* before the step
PushedBefore ==
    LET kept == Append(SubSeq(history, 1, historyStep + 1), ToDataURL(canvas))
    IN  /\ history' = IF Len(kept) > HistoryCap THEN Tail(kept) ELSE kept
        /\ historyStep' = Len(history') - 1
        /\ Entry(history', historyStep') = ToDataURL(canvas)

\* C10: a pointer-down and a fill always, and a clear whenever it changes the
\* canvas or the history, push exactly one entry that holds the canvas as it
\* was before the handler painted; a gesture starts with such a push, and the
\* canvas changes only in a step that pushed, in a move sample of a gesture,
\* in a restore's onload or in a resize.
C10_SnapshotBeforeMutation ==
    [][/\ last'.ev \in DownEvents \cup {"fill"} => PushedBefore
       /\ (last'.ev \in {"clear", "keydown"}
              /\ (canvas' # canvas \/ history' # history)) => PushedBefore
       /\ (~isDrawing /\ isDrawing') => PushedBefore
       /\ canvas' # canvas
             => \/ PushedBefore
                \/ isDrawing /\ last'.ev \in MoveEvents
                \/ last'.ev \in {"onload", "resize"}]_vars

\* a fill has changed the canvas and the entry pushed shows it as it was
C10_FilledAfterPush ==
    /\ last.ev = "fill"
    /\ last.saved = 1
    /\ Entry(history, historyStep) # ToDataURL(canvas)
    /\ \A p \in Pixels(canvas.width) : canvas.px[p] = currentColor

----------------------------------------------------------------------------
(* Properties of the brush and of the whole-canvas operations *)

\* the step is a clear the user confirmed, from the button or the 'c' key
ConfirmedClear ==
    /\ last'.saved = 1
    /\ \/ last'.ev = "clear"
       \/ last'.ev = "keydown" /\ last'.key = "c"

\* the step is a clear the user declined, from the button or the 'c' key
DeclinedClear ==
    /\ last'.saved = 0
    /\ \/ last'.ev = "clear"
       \/ last'.ev = "keydown" /\ last'.key = "c"

\* C11: a stamp made in eraser mode uses destination-out and every pixel it
\* changes becomes transparent, whatever the colour and the brush; a stamp made
\* with eraser mode off uses source-over and every pixel it changes takes the
\* configured or the rainbow colour.
C11_EraserForcesErase ==
    [][last'.stamps = 1
         => /\ isEraser' = isEraser
            /\ ctx'.gco = IF isEraser THEN DestinationOut ELSE SourceOver
            /\ \A p \in Pixels(canvas.width) :
                  canvas'.px[p] # canvas.px[p]
                     => IF isEraser THEN canvas'.px[p] = Transparent
                        ELSE canvas'.px[p] \in
                                (IF brushType = "rainbow" THEN Hues
                                 ELSE {currentColor})]_vars

\* a rainbow stamp in eraser mode has erased a pixel
C11_RainbowErased ==
    /\ last.stamps = 1
    /\ isEraser
    /\ brushType = "rainbow"
    /\ ctx.fillStyle \in Hues
    /\ \E p \in Pixels(canvas.width) : canvas.px[p] = Transparent

\* C12: a fill sets every pixel of the canvas to currentColor.
C12_FillPaintsAll ==
    [][last'.ev = "fill"
         => \A p \in Pixels(canvas'.width) : canvas'.px[p] = currentColor]_vars

\* C13: a confirmed clear sets every pixel of the canvas to the background.
C13_ClearPaintsBackground ==
    [][ConfirmedClear
         => \A p \in Pixels(canvas'.width) : canvas'.px[p] = Background]_vars

\* C14: a clear the user declines, from the button or from the 'c' key,
\* leaves the canvas, the history and the cursor unchanged.
C14_DeclinedClearNoOp ==
    [][DeclinedClear => UNCHANGED <<canvas, history, historyStep>>]_vars

\* the 'c' key's clear was declined with a drawing on the canvas
C14_DeclinedByKey ==
    /\ last.ev = "keydown"
    /\ last.key = "c"
    /\ last.saved = 0
    /\ Len(history) = 2
    /\ \E p \in Pixels(canvas.width) : canvas.px[p] # Background

\* C15: the stored brush size is an integer of at least 1.
C15_BrushSizePositive == ~brushSize.nan /\ brushSize.n >= 1

\* C16: Ctrl/Cmd+Z undoes and Ctrl/Cmd+S exports, the plain keys 'e' and 'c'
\* toggle the eraser and clear, and a key pressed with Ctrl/Cmd neither
\* toggles the eraser nor clears.
C16_KeyDispatch ==
    [][last'.ev = "keydown"
         => /\ (last'.ctrl /\ last'.key = "z" /\ historyStep > 0)
                  => historyStep' = historyStep - 1
            /\ (last'.ctrl /\ last'.key = "s")
                  => last'.href = ToDataURL(canvas)
            /\ (~last'.ctrl /\ last'.key = "e") => isEraser' = ~isEraser
            /\ last'.ctrl => (isEraser' = isEraser /\ last'.saved = 0)]_vars

\* C17: a resize yields a canvas of the new width that shows the background
\* everywhere and leaves isDrawing, the brush state, the history and the
\* cursor unchanged.
C17_ResizeClears ==
    [][last'.ev = "resize"
         => /\ \E w \in ClientWidths : canvas'.width = ResizedWidth(w)
            /\ Len(canvas'.px) = canvas'.width
            /\ \A p \in Pixels(canvas'.width) : canvas'.px[p] = Background
            /\ UNCHANGED <<isDrawing, currentColor, brushSize, brushType,
                           isEraser, history, historyStep>>]_vars

\* a resize to another width during a gesture
C17_ResizedWhileDrawing ==
    /\ last.ev = "resize"
    /\ isDrawing
    /\ canvas.width # Entry(history, historyStep).w

----------------------------------------------------------------------------
(* One drawSpray call: the spray brush is selected, the brush size is any   *)
(* value the size handler can store or any size up to MaxSpraySize, and the *)
(* loop of drawSpray runs from its first iteration.                         *)

SpraySizes ==
    {Num(n) : n \in 0..MaxSpraySize} \cup {ParseInt(v) : v \in SliderValues}

InitSpray ==
    \E clientWidth \in ClientWidths, size \in SpraySizes :
        LET cv == ResizeCanvasCanvas(clientWidth)
            r == SaveState(<<>>, -1, ToDataURL(cv))
        IN  /\ canvas = cv
            /\ ctx = ResizeCanvasCtx
            /\ isDrawing = FALSE
            /\ currentColor = DefaultColor
            /\ brushSize = size
            /\ brushType = "spray"
            /\ isEraser = FALSE
            /\ history = r.history
            /\ historyStep = r.historyStep
            /\ pending = <<>>
            /\ last = Ev("type", "", FALSE, 0, 0, NoUrl)
            /\ pushes = 1
            /\ undone = FALSE
            /\ spray = NoSpray
            /\ steps = 0

NextSpray == \E kx \in Randoms, ky \in Randoms : SpraySample(kx, ky)

SpecSpray == InitSpray /\ [][NextSpray]_vars

\* C18: a spray stamp of size S takes at most 2 * S samples, every sampled
\* offset lies in the square of side S centred on the point, and every
\* painted offset is at distance at most S / 2 from the centre.
C18_SprayWithinDisc ==
    LET half == RandomSteps * brushSize.n
    IN  /\ spray.i > 0 => (~brushSize.nan /\ brushSize.n > 0)
        /\ spray.i <= 2 * brushSize.n \/ spray.i = 0
        /\ spray.i > 0 => (Abs(spray.ox) <= half /\ Abs(spray.oy) <= half)
        /\ \A d \in spray.dots : d[1] * d[1] + d[2] * d[2] <= half * half

\* a spray stamp of size 2 has taken its 4 samples, painted at least two
\* pixels and rejected the last sample
C18_SprayDone ==
    /\ brushSize = Num(2)
    /\ spray.i = 4
    /\ ~spray.hit
    /\ Cardinality(spray.dots) >= 2

----------------------------------------------------------------------------
(* Undo and what it brings back *)

\* C19: after two operations and no undo before them, one undo whose restore
\* completes leaves the canvas as it was just before the second operation,
\* that is, as the entry that operation pushed.  Stated for runs of exactly
\* two operations, an undo and its onload, with the context in source-over.
C19_UndoRevertsLastOperation ==
    [][(/\ steps = 3
        /\ pushes = 3
        /\ undone
        /\ ~isDrawing
        /\ Len(pending) = 1
        /\ ctx.gco = SourceOver
        /\ last'.ev = "onload")
         => ToDataURL(canvas') = Entry(history, historyStep + 1)]_vars

----------------------------------------------------------------------------
(* Back-to-back undos: up to MaxUndoPushes operations, then undos only,    *)
(* then the onloads of their Images in any order.  steps counts the        *)
(* operations, is MaxUndoPushes once an undo was made and                  *)
(* MaxUndoPushes + 1 once an onload has fired.                             *)

Operation == steps < MaxUndoPushes /\ steps' = steps + 1
Undoing == steps \in 1..MaxUndoPushes /\ steps' = MaxUndoPushes
Draining == steps >= MaxUndoPushes /\ steps' = MaxUndoPushes + 1

NextUndos ==
    \/ \E c \in Colors : ColorInput(c) /\ steps < MaxUndoPushes /\ Untimed
    \/ FillClick /\ Operation
    \/ ClearClick(TRUE) /\ Operation
    \/ \E x \in Positions, hue \in HueChoices :
          \E hits \in HitChoices(x) : MouseDown(x, hue, hits) /\ Operation
    \/ isDrawing /\ MouseUp /\ steps < MaxUndoPushes /\ Untimed
    \/ historyStep > 0 /\ UndoClick /\ Undoing
    \/ \E i \in 1..Len(pending) : ImgOnload(i) /\ Draining

SpecUndos == Init /\ [][NextUndos]_vars

\* C20: once the onloads of two or more back-to-back undos have all fired,
\* the canvas shows history[historyStep].
C20_LastUndoWins ==
    (/\ steps = MaxUndoPushes + 1
     /\ pending = <<>>
     /\ historyStep <= Len(history) - 3)
        => ToDataURL(canvas) = Entry(history, historyStep)

====
